---- MODULE Spec2Model ----
(***************************************************************************)
(* Model of hermes/src/state/benchmarks.rs: the client of Pyth Benchmarks. *)
(*                                                                         *)
(*   - TryFrom<BinaryBlob> for Vec<Vec<u8>>         (the decoder)          *)
(*   - TryFrom<BenchmarkUpdates> for PriceFeedsWithUpdateData (assembler)  *)
(*   - Benchmarks::get_verified_price_feeds         (the fetcher)          *)
(*                                                                         *)
(* A Rust String is the sequence of the code points of its characters, a   *)
(* Vec<u8> or &[u8] a sequence of integers in 0..255, a char its code      *)
(* point, Option<T> is None / Some(v) and Result<T> is Ok(v) / Err(e).     *)
(***************************************************************************)
EXTENDS Integers, Sequences, FiniteSets, TLC

VARIABLES
    benchmarks_endpoint,  \* State::benchmarks_endpoint : Option<Url>
    provider_redirects,   \* how many redirects in a row the provider answers with
    calls,                \* the running get_verified_price_feeds calls
    conv_input,           \* a BenchmarkUpdates value handed to the conversions
    conv_decoded,         \* Option<Result<Vec<Vec<u8>>>>: BinaryBlob::try_into
    conv_assembled        \* Option<Result<PriceFeedsWithUpdateData>>

vars == <<benchmarks_endpoint, provider_redirects, calls, conv_input, conv_decoded,
          conv_assembled>>

---------------------------------------------------------------------------
(* Option and Result *)

None == [some |-> FALSE]
Some(v) == [some |-> TRUE, value |-> v]

Ok(v) == [ok |-> TRUE, value |-> v]
Err(e) == [ok |-> FALSE, error |-> e]

---------------------------------------------------------------------------
(* Bounds of the model *)

\* longest binary.data sequence of a BenchmarkUpdates given to the conversions
MaxItems == 2
\* longest parsed sequence of a BenchmarkUpdates given to the conversions
MaxParsed == 2
\* longest price_ids list of a call
MaxIds == 2
\* longest chain of redirects that the provider answers concurrent calls with
MaxRedirects == 1

---------------------------------------------------------------------------
(* Strings and their bytes *)

DecDigits == <<"0", "1", "2", "3", "4", "5", "6", "7", "8", "9">>
LowerAF == <<"a", "b", "c", "d", "e", "f">>
UpperAZ ==
    <<"A", "B", "C", "D", "E", "F", "G", "H", "I", "J", "K", "L", "M",
      "N", "O", "P", "Q", "R", "S", "T", "U", "V", "W", "X", "Y", "Z">>
LowerAZ ==
    <<"a", "b", "c", "d", "e", "f", "g", "h", "i", "j", "k", "l", "m",
      "n", "o", "p", "q", "r", "s", "t", "u", "v", "w", "x", "y", "z">>

Range(s) == {s[i] : i \in 1..Len(s)}
IndexOf(s, c) == CHOOSE i \in 1..Len(s) : s[i] = c

\* the code point of an ASCII letter, digit or one of ! + / =
Code(ch) ==
    IF ch \in Range(UpperAZ) THEN 64 + IndexOf(UpperAZ, ch)
    ELSE IF ch \in Range(LowerAZ) THEN 96 + IndexOf(LowerAZ, ch)
    ELSE IF ch \in Range(DecDigits) THEN 47 + IndexOf(DecDigits, ch)
    ELSE IF ch = "!" THEN 33
    ELSE IF ch = "+" THEN 43
    ELSE IF ch = "/" THEN 47
    ELSE 61

\* the String written with the given ASCII characters
Str(chars) == [i \in 1..Len(chars) |-> Code(chars[i])]

\* the UTF-8 bytes of one char
Utf8Char(cp) ==
    IF cp < 128 THEN <<cp>>
    ELSE IF cp < 2048 THEN <<192 + (cp \div 64), 128 + (cp % 64)>>
    ELSE IF cp < 65536
         THEN <<224 + (cp \div 4096), 128 + ((cp \div 64) % 64), 128 + (cp % 64)>>
    ELSE <<240 + (cp \div 262144), 128 + ((cp \div 4096) % 64),
           128 + ((cp \div 64) % 64), 128 + (cp % 64)>>

\* String::as_ref(): the bytes of the string, which the decoders read
RECURSIVE Utf8(_)
Utf8(string) ==
    IF string = <<>> THEN <<>> ELSE Utf8Char(Head(string)) \o Utf8(Tail(string))

---------------------------------------------------------------------------
(* hex::decode and hex::encode *)

\* c is the offending byte as a char
InvalidHexCharacter(c, index) ==
    [type |-> "hex::FromHexError", kind |-> "InvalidHexCharacter", c |-> c, index |-> index]
OddLength == [type |-> "hex::FromHexError", kind |-> "OddLength"]

\* hex: fn val(c, idx): the value of one hex digit, either case
HexVal(c, idx) ==
    IF Code("A") <= c /\ c <= Code("F") THEN Ok(c - Code("A") + 10)
    ELSE IF Code("a") <= c /\ c <= Code("f") THEN Ok(c - Code("a") + 10)
    ELSE IF Code("0") <= c /\ c <= Code("9") THEN Ok(c - Code("0"))
    ELSE Err(InvalidHexCharacter(c, idx))

\* hex.chunks(2).enumerate().map(..).collect(): chunk i (from 0) onwards
RECURSIVE HexChunks(_, _)
HexChunks(hex, i) ==
    IF 2 * i >= Len(hex) THEN Ok(<<>>)
    ELSE LET hi == HexVal(hex[2 * i + 1], 2 * i)
             lo == HexVal(hex[2 * i + 2], 2 * i + 1)
         IN  IF ~hi.ok THEN hi
             ELSE IF ~lo.ok THEN lo
             ELSE LET rest == HexChunks(hex, i + 1)
                  IN  IF ~rest.ok THEN rest
                      ELSE Ok(<<hi.value * 16 + lo.value>> \o rest.value)

\* hex::decode(datum): on the bytes of the datum
HexDecode(datum) ==
    LET hex == Utf8(datum)
    IN  IF Len(hex) % 2 # 0 THEN Err(OddLength) ELSE HexChunks(hex, 0)

\* hex::encode(bytes): two lower-case digits per byte
RECURSIVE HexEncode(_)
HexEncode(bytes) ==
    IF bytes = <<>> THEN <<>>
    ELSE LET digits == Str(DecDigits \o LowerAF)
             b == Head(bytes)
         IN  <<digits[(b \div 16) + 1], digits[(b % 16) + 1]>> \o HexEncode(Tail(bytes))

---------------------------------------------------------------------------
(* base64::engine::general_purpose::STANDARD.decode: the standard alphabet, *)
(* canonical padding required, no trailing bits allowed.                    *)

B64Alphabet == Str(UpperAZ \o LowerAZ \o DecDigits \o <<"+", "/">>)
PadChar == Code("=")

\* the variant of base64::DecodeError is not modelled
Base64DecodeError == [type |-> "base64::DecodeError"]

\* the bytes of a run of 6-bit symbols (2 or 3 symbols in the last group)
RECURSIVE MorselBytes(_)
MorselBytes(m) ==
    IF Len(m) < 2 THEN <<>>
    ELSE LET b1 == m[1] * 4 + (m[2] \div 16)
         IN  IF Len(m) = 2 THEN <<b1>>
             ELSE LET b2 == (m[2] % 16) * 16 + (m[3] \div 4)
                  IN  IF Len(m) = 3 THEN <<b1, b2>>
                      ELSE <<b1, b2, (m[3] % 4) * 64 + m[4]>>
                               \o MorselBytes(SubSeq(m, 5, Len(m)))

\* the bits of the last symbol that no output byte takes
TrailingBits(m) ==
    IF Len(m) % 4 = 2 THEN m[Len(m)] % 16
    ELSE IF Len(m) % 4 = 3 THEN m[Len(m)] % 4
    ELSE 0

\* the scan of the input from symbol i (from 1), with the symbols and the
\* padding seen so far
RECURSIVE Base64Scan(_, _, _, _)
Base64Scan(s, i, morsels, padding) ==
    IF i > Len(s) THEN
        IF (padding + Len(morsels)) % 4 # 0 THEN Err(Base64DecodeError)
        ELSE IF TrailingBits(morsels) # 0 THEN Err(Base64DecodeError)
        ELSE Ok(MorselBytes(morsels))
    ELSE IF s[i] = PadChar THEN
        IF (i - 1) % 4 < 2 THEN Err(Base64DecodeError)
        ELSE Base64Scan(s, i + 1, morsels, padding + 1)
    ELSE IF padding > 0 THEN Err(Base64DecodeError)
    ELSE IF s[i] \notin Range(B64Alphabet) THEN Err(Base64DecodeError)
    ELSE Base64Scan(s, i + 1, Append(morsels, IndexOf(B64Alphabet, s[i]) - 1), padding)

\* base64_standard_engine.decode(datum): on the bytes of the datum
Base64Decode(datum) == Base64Scan(Utf8(datum), 1, <<>>, 0)

---------------------------------------------------------------------------
(* impl TryFrom<BinaryBlob> for Vec<Vec<u8>> *)

\* enum BlobEncoding
BlobEncoding == {"Base64", "Hex"}

\* the closure of the map: one datum under the blob's encoding
DecodeDatum(encoding, datum) ==
    IF encoding = "Base64" THEN Base64Decode(datum) ELSE HexDecode(datum)

\* .collect::<Result<_>>(): the items in order, stopping at the first Err
RECURSIVE CollectResults(_, _)
CollectResults(encoding, data) ==
    IF data = <<>> THEN Ok(<<>>)
    ELSE LET first == DecodeDatum(encoding, Head(data))
         IN  IF ~first.ok THEN first
             ELSE LET rest == CollectResults(encoding, Tail(data))
                  IN  IF ~rest.ok THEN rest
                      ELSE Ok(<<first.value>> \o rest.value)

\* a variant of the decoder that skips the items that do not decode
RECURSIVE CollectSkippingBad(_, _)
CollectSkippingBad(encoding, data) ==
    IF data = <<>> THEN Ok(<<>>)
    ELSE LET first == DecodeDatum(encoding, Head(data))
             rest == CollectSkippingBad(encoding, Tail(data))
         IN  IF ~first.ok THEN rest ELSE Ok(<<first.value>> \o rest.value)

TryFromBinaryBlobSkipping(binary_blob) ==
    CollectSkippingBad(binary_blob.encoding, binary_blob.data)

\* a variant of the decoder that reads every item as hex, whatever the tag
TryFromBinaryBlobHexOnly(binary_blob) ==
    CollectResults("Hex", binary_blob.data)

TryFromBinaryBlob(binary_blob) ==
    CollectResults(binary_blob.encoding, binary_blob.data)

---------------------------------------------------------------------------
(* impl TryFrom<BenchmarkUpdates> for PriceFeedsWithUpdateData *)

\* a variant that fills a field the provider does not supply
PriceFeedUpdateGuessed(price_feed) ==
    [price_feed |-> price_feed, slot |-> Some(0), received_at |-> None,
     update_data |-> None, prev_publish_time |-> None]

\* the closure of the map: one PriceFeedUpdate per parsed price feed
PriceFeedUpdate(price_feed) ==
    [price_feed |-> price_feed, slot |-> None, received_at |-> None,
     update_data |-> None, prev_publish_time |-> None]

MapPriceFeeds(parsed) == [i \in 1..Len(parsed) |-> PriceFeedUpdate(parsed[i])]

\* a variant that refuses a response whose two counts differ
TryFromBenchmarkUpdatesChecked(benchmark_updates) ==
    LET update_data == TryFromBinaryBlob(benchmark_updates.binary)
    IN  IF ~update_data.ok THEN update_data
        ELSE IF Len(update_data.value) # Len(benchmark_updates.parsed)
             THEN Err([type |-> "anyhow", msg |-> "length mismatch"])
        ELSE Ok([price_feeds |-> MapPriceFeeds(benchmark_updates.parsed),
                 update_data |-> update_data.value])

TryFromBenchmarkUpdates(benchmark_updates) ==
    LET price_feeds == MapPriceFeeds(benchmark_updates.parsed)
        update_data == TryFromBinaryBlob(benchmark_updates.binary)
    IN  IF ~update_data.ok THEN update_data
        ELSE Ok([price_feeds |-> price_feeds, update_data |-> update_data.value])

---------------------------------------------------------------------------
(* The conversions applied to sample values *)

\* strings that are well formed under both encodings, one, or neither; the
\* last three end with U+00E9, a char of two bytes
SampleStrings ==
    { <<>>,
      Str(<<"a", "a", "b", "b">>),
      Str(<<"c", "c", "d", "d">>),
      Str(<<"A", "b">>),
      Str(<<"a", "b", "c">>),
      Str(<<"a", "g">>),
      Str(<<"q", "r", "s", "=">>),
      Str(<<"q", "g", "=", "=">>),
      Str(<<"q", "h", "=", "=">>),
      Str(<<"a", "b", "=", "c">>),
      Str(<<"a", "=", "=", "=">>),
      Str(<<"a", "b", "!", "d">>),
      Str(<<"q", "g", "=", "=", "a", "b", "c", "d">>),
      Str(<<"a", "b", "c", "d", "q", "g", "=", "=">>),
      <<233>>,
      Str(<<"a">>) \o <<233>>,
      Str(<<"a", "b">>) \o <<233>> }

\* parsed price feeds: opaque values of pyth_sdk::PriceFeed
PriceFeeds == {"feed1", "feed2"}

SeqsUpTo(S, n) == UNION {[1..k -> S] : k \in 0..n}

BinaryBlob(encoding, data) == [encoding |-> encoding, data |-> data]
BenchmarkUpdates(parsed, binary) == [parsed |-> parsed, binary |-> binary]

ConvInputs ==
    {BenchmarkUpdates(p, BinaryBlob(e, d)) :
        p \in SeqsUpTo(PriceFeeds, MaxParsed),
        e \in BlobEncoding,
        d \in SeqsUpTo(SampleStrings, MaxItems)}

NoCalls == [c \in {} |-> None]

InitConvert ==
    /\ benchmarks_endpoint = None
    /\ provider_redirects = 0
    /\ calls = NoCalls
    /\ conv_input \in ConvInputs
    /\ conv_decoded = None
    /\ conv_assembled = None

\* let v: Vec<Vec<u8>> = conv_input.binary.try_into()
DecodeBlob ==
    /\ ~conv_decoded.some
    /\ conv_decoded' = Some(TryFromBinaryBlob(conv_input.binary))
    /\ UNCHANGED <<benchmarks_endpoint, provider_redirects, calls, conv_input, conv_assembled>>

\* let v: PriceFeedsWithUpdateData = conv_input.try_into()
AssembleUpdates ==
    /\ ~conv_assembled.some
    /\ conv_assembled' = Some(TryFromBenchmarkUpdates(conv_input))
    /\ UNCHANGED <<benchmarks_endpoint, provider_redirects, calls, conv_input, conv_decoded>>

NextConvert == DecodeBlob \/ AssembleUpdates

SpecConvert == InitConvert /\ [][NextConvert]_vars

---------------------------------------------------------------------------
(* The request of get_verified_price_feeds *)

\* const BENCHMARKS_REQUEST_TIMEOUT, in seconds
BENCHMARKS_REQUEST_TIMEOUT == 30

\* url::Url: a hierarchical URL, or one that cannot be a base (mailto:, data:)
Url(scheme, host, path) ==
    [scheme |-> scheme, host |-> host, path |-> path, query |-> <<>>,
     cannot_be_a_base |-> FALSE]
OpaqueUrl(scheme, path) ==
    [scheme |-> scheme, host |-> "", path |-> path, query |-> <<>>,
     cannot_be_a_base |-> TRUE]

\* the values of State::benchmarks_endpoint: unset, or any Url
Endpoints ==
    { None,
      Some(Url("https", "benchmarks.pyth.network", "/")),
      Some(Url("http", "localhost:8080", "/api/")),
      Some(Url("ftp", "benchmarks.pyth.network", "/")),
      Some(OpaqueUrl("mailto", "ops@pyth.network")) }

\* pyth_sdk::PriceIdentifier: 32 bytes
PriceIdentifier(b) == [i \in 1..32 |-> b]
Identifiers == {PriceIdentifier(0), PriceIdentifier(171)}

PublishTimes == {-1, 0, 1700000000}

EndpointNotSet == [type |-> "anyhow", msg |-> "Benchmarks endpoint is not set"]

\* a variant that falls back on a built-in address when none is configured
EndpointOrDefault(endpoint) ==
    IF endpoint.some THEN Ok(endpoint.value)
    ELSE Ok(Url("https", "benchmarks.pyth.network", "/"))

\* self.benchmarks_endpoint.as_ref().ok_or_else(|| anyhow!(..))
EndpointOrErr(endpoint) ==
    IF endpoint.some THEN Ok(endpoint.value) ELSE Err(EndpointNotSet)

\* format!("/v1/updates/price/{}", publish_time)
UpdatesPath(publish_time) == "/v1/updates/price/" \o ToString(publish_time)

\* Url::join with a reference that starts with "/": an error on a base that
\* cannot be a base; otherwise the base keeps its scheme and host, the
\* reference replaces its path, and its query is dropped
UrlJoin(base, reference) ==
    IF base.cannot_be_a_base
    THEN Err([type |-> "url::ParseError", kind |-> "RelativeUrlWithCannotBeABaseBase"])
    ELSE Ok([base EXCEPT !.path = reference, !.query = <<>>])

\* RequestBuilder::query(&[(key, value)]): one more pair at the end of the query
Query(request, key, value) ==
    [request EXCEPT !.url.query = Append(@, <<key, value>>)]

\* Serialize for PriceIdentifier: the bytes in lower-case hex
IdentifierString(price_id) == HexEncode(price_id)

\* a variant of the loop that sends each identifier once
RECURSIVE QueryIdsOnce(_, _)
QueryIdsOnce(request, price_ids) ==
    IF price_ids = <<>> THEN request
    ELSE LET key == <<"ids", IdentifierString(Head(price_ids))>>
         IN  QueryIdsOnce(IF key \in Range(request.url.query) THEN request
                          ELSE Query(request, "ids", IdentifierString(Head(price_ids))),
                          Tail(price_ids))

\* for price_id in price_ids { request = request.query(&[("ids", price_id)]) }
RECURSIVE QueryIds(_, _)
QueryIds(request, price_ids) ==
    IF price_ids = <<>> THEN request
    ELSE QueryIds(Query(request, "ids", IdentifierString(Head(price_ids))),
                  Tail(price_ids))

\* client.get(endpoint).timeout(..).query(..).query(..) and the loop
BuildRequest(endpoint, price_ids) ==
    LET get == [method |-> "GET", url |-> endpoint, timeout |-> BENCHMARKS_REQUEST_TIMEOUT]
        request == Query(Query(get, "encoding", Str(<<"h", "e", "x">>)),
                         "parsed", Str(<<"t", "r", "u", "e">>))
    IN  QueryIds(request, price_ids)

---------------------------------------------------------------------------
(* The provider's replies *)

StatusCodes == {200, 302, 404, 503}

\* the statuses on which the client looks for a Location to follow
RedirectStatuses == {301, 302, 303, 307, 308}

\* reqwest::Client::new(): the default redirect::Policy, limited(10): a
\* redirect is refused once 10 requests of the chain have gone out
DefaultRedirectLimit == 10

\* a JSON body with the fields "parsed" and "binary"
JsonBody(parsed, encoding, data) ==
    [readable |-> TRUE, fields |-> {"parsed", "binary"},
     parsed |-> parsed, encoding |-> encoding, data |-> data]

Bodies ==
    { JsonBody(<<"feed1", "feed2">>, "hex",
               <<Str(<<"a", "a", "b", "b">>), Str(<<"c", "c", "d", "d">>)>>),
      JsonBody(<<"feed1">>, "hex", <<Str(<<"a", "a", "b", "b">>), Str(<<"a", "g">>)>>),
      JsonBody(<<>>, "base64", <<Str(<<"q", "r", "s", "=">>)>>),
      JsonBody(<<"feed1">>, "base58", <<Str(<<"a", "a", "b", "b">>)>>),
      [readable |-> TRUE, fields |-> {"error"}],
      [readable |-> FALSE] }

\* the responses with no Location header
Responses ==
    {[status |-> s, location |-> None, body |-> b] : s \in StatusCodes, b \in Bodies}

\* where the provider sends the client on
Elsewhere == Url("https", "elsewhere.example", "/v1/updates/price/0")

\* the responses that name a Location
Redirects ==
    {[status |-> s, location |-> Some(Elsewhere), body |-> [readable |-> FALSE]] :
        s \in RedirectStatuses}

\* the client follows a response of a redirect status that has a Location
IsRedirect(response) ==
    response.status \in RedirectStatuses /\ response.location.some

\* the request that follows a redirect: the one before it, to the Location
Redirected(request, location) == [request EXCEPT !.url = location]

\* the failure of send() on one redirect more than the policy allows
TooManyRedirects == [type |-> "reqwest::Error", kind |-> "Redirect"]

\* the failure of RequestBuilder::send on a URL that is not http(s): no
\* request goes out
BadScheme == [type |-> "reqwest::Error", kind |-> "Builder"]

\* the failures of RequestBuilder::send: no connection, or the timeout
SendErrors ==
    { [type |-> "reqwest::Error", kind |-> "Request", timeout |-> FALSE],
      [type |-> "reqwest::Error", kind |-> "Request", timeout |-> TRUE] }

\* #[derive(Deserialize)] for BlobEncoding, with its two renames
DeserializeBlobEncoding(name) ==
    IF name = "base64" THEN Ok("Base64")
    ELSE IF name = "hex" THEN Ok("Hex")
    ELSE Err([type |-> "reqwest::Error", kind |-> "Decode"])

\* #[derive(Deserialize)] for BenchmarkUpdates and BinaryBlob
DeserializeBenchmarkUpdates(body) ==
    IF ~({"parsed", "binary"} \subseteq body.fields)
    THEN Err([type |-> "reqwest::Error", kind |-> "Decode"])
    ELSE LET encoding == DeserializeBlobEncoding(body.encoding)
         IN  IF ~encoding.ok THEN encoding
             ELSE Ok(BenchmarkUpdates(body.parsed,
                                      BinaryBlob(encoding.value, body.data)))

\* response.json().await: the body is read whatever the status, then parsed
ResponseJson(response) ==
    IF ~response.body.readable THEN Err([type |-> "reqwest::Error", kind |-> "Body"])
    ELSE DeserializeBenchmarkUpdates(response.body)

---------------------------------------------------------------------------
(* Benchmarks::get_verified_price_feeds, one step per await *)

NewCall(price_ids, publish_time) ==
    [pc |-> "start", price_ids |-> price_ids, publish_time |-> publish_time,
     request |-> None, wire |-> <<>>, reply |-> None,
     benchmark_updates |-> None, outcomes |-> <<>>]

\* the call c returns r
Return(c, r) ==
    calls' = [calls EXCEPT ![c].pc = "done", ![c].outcomes = Append(@, r)]

NoConversion ==
    /\ conv_input = BenchmarkUpdates(<<>>, BinaryBlob("Hex", <<>>))
    /\ conv_decoded = None
    /\ conv_assembled = None

\* the call c panics: it ends without returning
Panic(c) == calls' = [calls EXCEPT ![c].pc = "panicked"]

\* the endpoint, or the early return; the join, or the panic of unwrap();
\* and the request
Build(c) ==
    /\ calls[c].pc = "start"
    /\ LET base == EndpointOrErr(benchmarks_endpoint)
       IN  IF ~base.ok THEN Return(c, base)
           ELSE LET endpoint == UrlJoin(base.value, UpdatesPath(calls[c].publish_time))
                IN  IF ~endpoint.ok THEN Panic(c)
                    ELSE calls' = [calls EXCEPT
                             ![c].pc = "send",
                             ![c].request = Some(BuildRequest(endpoint.value,
                                                              calls[c].price_ids))]
    /\ UNCHANGED <<benchmarks_endpoint, provider_redirects, conv_input, conv_decoded,
                 conv_assembled>>

\* request.send(): the request goes out, unless its URL is not http(s)
Send(c) ==
    /\ calls[c].pc = "send"
    /\ IF calls[c].request.value.url.scheme \notin {"http", "https"}
       THEN calls' = [calls EXCEPT ![c].pc = "done",
                                   ![c].reply = Some(Err(BadScheme)),
                                   ![c].outcomes = Append(@, Err(BadScheme))]
       ELSE calls' = [calls EXCEPT ![c].pc = "await",
                                   ![c].wire = Append(@, calls[c].request.value)]
    /\ UNCHANGED <<benchmarks_endpoint, provider_redirects, conv_input, conv_decoded,
                 conv_assembled>>

\* .await?: the client of Client::new() follows a redirect with one more
\* request, up to its limit; send() ends with any other response, whatever
\* its status, or with a failure of the transport
Receive(c) ==
    /\ calls[c].pc = "await"
    /\ \/ \E response \in Responses \cup
                           (IF Len(calls[c].wire) <= provider_redirects
                            THEN Redirects ELSE {}) :
            IF ~IsRedirect(response)
            THEN calls' = [calls EXCEPT ![c].pc = "json",
                                        ![c].reply = Some(Ok(response))]
            ELSE IF Len(calls[c].wire) >= DefaultRedirectLimit
            THEN calls' = [calls EXCEPT ![c].pc = "done",
                                        ![c].reply = Some(Err(TooManyRedirects)),
                                        ![c].outcomes = Append(@, Err(TooManyRedirects))]
            ELSE calls' = [calls EXCEPT
                     ![c].wire = Append(@, Redirected(@[Len(@)],
                                                      response.location.value))]
       \/ \E e \in SendErrors :
            calls' = [calls EXCEPT ![c].pc = "done",
                                   ![c].reply = Some(Err(e)),
                                   ![c].outcomes = Append(@, Err(e))]
    /\ UNCHANGED <<benchmarks_endpoint, provider_redirects, conv_input, conv_decoded,
                 conv_assembled>>

\* a variant with one response buffer for all the calls: the last one filled
SharedResponse(c) ==
    LET others == {d \in DOMAIN calls : d # c /\ calls[d].reply.some /\ calls[d].reply.value.ok}
    IN  IF others = {} THEN calls[c].reply.value.value
        ELSE calls[CHOOSE d \in others : TRUE].reply.value.value

\* the response the call c hands to json(): its own
ResponseOf(c) == calls[c].reply.value.value

\* response.json().await?
Json(c) ==
    /\ calls[c].pc = "json"
    /\ LET benchmark_updates == ResponseJson(ResponseOf(c))
       IN  IF ~benchmark_updates.ok THEN Return(c, benchmark_updates)
           ELSE calls' = [calls EXCEPT
                    ![c].pc = "convert",
                    ![c].benchmark_updates = Some(benchmark_updates.value)]
    /\ UNCHANGED <<benchmarks_endpoint, provider_redirects, conv_input, conv_decoded,
                 conv_assembled>>

\* a variant that answers a blob that does not decode with an empty result
ConvertOrEmpty(c) ==
    /\ calls[c].pc = "convert"
    /\ LET r == TryFromBenchmarkUpdates(calls[c].benchmark_updates.value)
       IN  Return(c, IF r.ok THEN r ELSE Ok([price_feeds |-> <<>>, update_data |-> <<>>]))
    /\ UNCHANGED <<benchmarks_endpoint, provider_redirects, conv_input, conv_decoded,
                 conv_assembled>>

\* benchmark_updates.try_into()
Convert(c) ==
    /\ calls[c].pc = "convert"
    /\ Return(c, TryFromBenchmarkUpdates(calls[c].benchmark_updates.value))
    /\ UNCHANGED <<benchmarks_endpoint, provider_redirects, conv_input, conv_decoded,
                 conv_assembled>>

Next ==
    \E c \in DOMAIN calls :
        \/ Build(c)
        \/ Send(c)
        \/ Receive(c)
        \/ Json(c)
        \/ Convert(c)

\* one call, with any endpoint, price_ids up to MaxIds and any publish time
Init ==
    /\ benchmarks_endpoint \in Endpoints
    /\ provider_redirects = DefaultRedirectLimit
    /\ calls \in [{"call1"} ->
                    {NewCall(ids, t) : ids \in SeqsUpTo(Identifiers, MaxIds),
                                       t \in PublishTimes}]
    /\ NoConversion

Spec == Init /\ [][Next]_vars

\* two calls running at once
ConcurrentInputs ==
    { NewCall(<<>>, 0),
      NewCall(<<PriceIdentifier(171), PriceIdentifier(0)>>, 1700000000) }

InitConcurrent ==
    /\ benchmarks_endpoint \in Endpoints
    /\ provider_redirects = MaxRedirects
    /\ calls \in [{"call1", "call2"} -> ConcurrentInputs]
    /\ NoConversion

SpecConcurrent == InitConcurrent /\ [][Next]_vars

---------------------------------------------------------------------------
(* What the properties are stated with: the encodings as RFC 4648 defines   *)
(* them, and the kinds of error of the specification.                       *)

UpperAF == <<"A", "B", "C", "D", "E", "F">>
HexDigitSet == Range(Str(DecDigits)) \cup Range(Str(LowerAF)) \cup Range(Str(UpperAF))

\* an even number of hex digits
WellFormedHex(s) == Len(s) % 2 = 0 /\ \A i \in 1..Len(s) : s[i] \in HexDigitSet

\* the number of "=" that end s, up to 2
PadCount(s) ==
    IF Len(s) > 0 /\ s[Len(s)] = PadChar
    THEN (IF Len(s) > 1 /\ s[Len(s) - 1] = PadChar THEN 2 ELSE 1)
    ELSE 0

\* whole quads of the standard alphabet, the last one padded with at most two
\* "=" after a symbol whose unused bits are zero
WellFormedBase64(s) ==
    /\ Len(s) % 4 = 0
    /\ \A i \in 1..(Len(s) - PadCount(s)) : s[i] \in Range(B64Alphabet)
    /\ PadCount(s) = 1 => (IndexOf(B64Alphabet, s[Len(s) - 1]) - 1) % 4 = 0
    /\ PadCount(s) = 2 => (IndexOf(B64Alphabet, s[Len(s) - 2]) - 1) % 16 = 0

WellFormed(encoding, s) ==
    IF encoding = "Base64" THEN WellFormedBase64(s) ELSE WellFormedHex(s)

ToLowerHex(s) ==
    [i \in 1..Len(s) |->
        IF s[i] \in Range(Str(UpperAF)) THEN Str(LowerAF)[IndexOf(Str(UpperAF), s[i])]
        ELSE s[i]]

\* the padded base64 of a byte sequence
RECURSIVE Base64Encode(_)
Base64Encode(b) ==
    IF Len(b) = 0 THEN <<>>
    ELSE IF Len(b) = 1 THEN
        <<B64Alphabet[(b[1] \div 4) + 1], B64Alphabet[(b[1] % 4) * 16 + 1],
          PadChar, PadChar>>
    ELSE IF Len(b) = 2 THEN
        <<B64Alphabet[(b[1] \div 4) + 1],
          B64Alphabet[(b[1] % 4) * 16 + (b[2] \div 16) + 1],
          B64Alphabet[(b[2] % 16) * 4 + 1], PadChar>>
    ELSE <<B64Alphabet[(b[1] \div 4) + 1],
           B64Alphabet[(b[1] % 4) * 16 + (b[2] \div 16) + 1],
           B64Alphabet[(b[2] % 16) * 4 + (b[3] \div 64) + 1],
           B64Alphabet[(b[3] % 64) + 1]>> \o Base64Encode(SubSeq(b, 4, Len(b)))

\* the string that encodes bytes, and the string s in its canonical case
Encoded(encoding, bytes) ==
    IF encoding = "Base64" THEN Base64Encode(bytes) ELSE HexEncode(bytes)
Canonical(encoding, s) == IF encoding = "Base64" THEN s ELSE ToLowerHex(s)

\* the kind of error of the specification that an error of the code is
ErrorClass(e) ==
    IF e.type = "anyhow" THEN "ConfigurationError"
    ELSE IF e.type = "reqwest::Error"
         THEN (IF e.kind = "Decode" THEN "SchemaError" ELSE "TransportError")
    ELSE "DecodeError"

AllWellFormed(blob) ==
    \A i \in 1..Len(blob.data) : WellFormed(blob.encoding, blob.data[i])

IsSuccess(status) == 200 <= status /\ status <= 299

---------------------------------------------------------------------------
(* Properties of the conversions, under SpecConvert *)

\* C3: decoding is all-or-nothing: the decoder returns Ok exactly when every
\* string of the blob is well formed under the blob's tag; a blob with a
\* malformed string yields a DecodeError that carries no byte sequence.
DecodeAllOrNothing ==
    conv_decoded.some =>
        LET r == conv_decoded.value
        IN  /\ r.ok <=> AllWellFormed(conv_input.binary)
            /\ ~r.ok => /\ DOMAIN r = {"ok", "error"}
                        /\ ErrorClass(r.error) = "DecodeError"

\* a malformed string after a well-formed one has failed the whole decode
DecodeAllOrNothingWitness ==
    /\ conv_decoded.some
    /\ ~conv_decoded.value.ok
    /\ Len(conv_input.binary.data) = 2
    /\ WellFormed(conv_input.binary.encoding, conv_input.binary.data[1])
    /\ Len(conv_input.binary.data[1]) > 0
    /\ ~WellFormed(conv_input.binary.encoding, conv_input.binary.data[2])

\* C5: a successful decode has one byte sequence per string of the blob, the
\* i-th being the bytes that the i-th string encodes under the blob's tag;
\* an empty data sequence decodes to the empty result.
DecodeIndexForIndex ==
    conv_decoded.some =>
        LET r == conv_decoded.value
            blob == conv_input.binary
        IN  /\ r.ok =>
                /\ Len(r.value) = Len(blob.data)
                /\ \A i \in 1..Len(blob.data) :
                      /\ DecodeDatum(blob.encoding, blob.data[i]) = Ok(r.value[i])
                      /\ Encoded(blob.encoding, r.value[i])
                            = Canonical(blob.encoding, blob.data[i])
            /\ blob.data = <<>> => r = Ok(<<>>)

\* two different base64 strings that are also hex strings have been decoded
DecodeIndexForIndexWitness ==
    /\ conv_decoded.some
    /\ conv_decoded.value.ok
    /\ conv_input.binary.encoding = "Base64"
    /\ Len(conv_input.binary.data) = 2
    /\ conv_input.binary.data[1] # conv_input.binary.data[2]
    /\ \A i \in 1..2 : /\ WellFormedHex(conv_input.binary.data[i])
                       /\ Len(conv_input.binary.data[i]) > 0

\* C6: a successful assemble has one record per parsed value, in order, and
\* the four optional fields of every record are None.
AssembleRecords ==
    (conv_assembled.some /\ conv_assembled.value.ok) =>
        LET records == conv_assembled.value.value.price_feeds
        IN  /\ Len(records) = Len(conv_input.parsed)
            /\ \A i \in 1..Len(conv_input.parsed) :
                  /\ records[i].price_feed = conv_input.parsed[i]
                  /\ records[i].slot = None
                  /\ records[i].received_at = None
                  /\ records[i].update_data = None
                  /\ records[i].prev_publish_time = None

\* two different parsed values have been assembled
AssembleRecordsWitness ==
    /\ conv_assembled.some
    /\ conv_assembled.value.ok
    /\ Len(conv_input.parsed) = 2
    /\ conv_input.parsed[1] # conv_input.parsed[2]

\* C9: assemble does not compare the two counts: whenever every string of
\* the blob is well formed it succeeds, with one byte sequence per string of
\* the blob and one record per parsed value.
AssembleCountsUnchecked ==
    (conv_assembled.some /\ AllWellFormed(conv_input.binary)) =>
        /\ conv_assembled.value.ok
        /\ Len(conv_assembled.value.value.update_data) = Len(conv_input.binary.data)
        /\ Len(conv_assembled.value.value.price_feeds) = Len(conv_input.parsed)

\* no parsed value with two blob items has been assembled
AssembleCountsUncheckedWitness ==
    /\ conv_assembled.some
    /\ conv_assembled.value.ok
    /\ conv_input.parsed = <<>>
    /\ Len(conv_input.binary.data) = 2

---------------------------------------------------------------------------
(* Properties of get_verified_price_feeds, under Spec *)

\* C1: with no endpoint configured, a call that has made its first step has
\* returned the configuration error, has built no request and has sent none.
NoEndpointNoRequest ==
    \A c \in DOMAIN calls :
        ~benchmarks_endpoint.some =>
            /\ calls[c].wire = <<>>
            /\ ~calls[c].request.some
            /\ calls[c].pc \in {"start", "done"}
            /\ calls[c].pc = "done" =>
                  /\ calls[c].outcomes = <<Err(EndpointNotSet)>>
                  /\ ErrorClass(calls[c].outcomes[1].error) = "ConfigurationError"

\* a call for two identifiers has returned with no endpoint configured
NoEndpointNoRequestWitness ==
    \E c \in DOMAIN calls :
        /\ ~benchmarks_endpoint.some
        /\ calls[c].pc = "done"
        /\ Len(calls[c].price_ids) = 2

\* C2: a call that received a response whose status is not 2xx ends with a
\* transport error.
Non2xxIsTransportError ==
    \A c \in DOMAIN calls :
        (/\ calls[c].pc = "done"
         /\ calls[c].reply.some
         /\ calls[c].reply.value.ok
         /\ ~IsSuccess(calls[c].reply.value.value.status)) =>
            /\ ~calls[c].outcomes[1].ok
            /\ ErrorClass(calls[c].outcomes[1].error) = "TransportError"

\* C4: with an endpoint configured, a call never sends more than one
\* request nor returns more than one outcome, and a call that has ended has
\* sent exactly one request and returned exactly one outcome.
OneRequestOneOutcome ==
    \A c \in DOMAIN calls :
        benchmarks_endpoint.some =>
            /\ Len(calls[c].wire) <= 1
            /\ Len(calls[c].outcomes) <= 1
            /\ calls[c].pc \in {"done", "panicked"} =>
                  /\ Len(calls[c].wire) = 1
                  /\ Len(calls[c].outcomes) = 1

\* C7: the request that a call builds and hands to send(), and that goes
\* out first, is a GET of /v1/updates/price/{publish_time} with the query
\* encoding=hex, parsed=true and then one ids parameter per element of
\* price_ids, in the order of the list.
RequestShape ==
    \A c \in DOMAIN calls :
        /\ calls[c].wire # <<>> => calls[c].wire[1] = calls[c].request.value
        /\ calls[c].request.some =>
              LET sent == calls[c].request.value
                  ids == calls[c].price_ids
              IN  /\ sent.method = "GET"
                  /\ sent.url.path = "/v1/updates/price/" \o ToString(calls[c].publish_time)
                  /\ Len(sent.url.query) = 2 + Len(ids)
                  /\ sent.url.query[1] = <<"encoding", Str(<<"h", "e", "x">>)>>
                  /\ sent.url.query[2] = <<"parsed", Str(<<"t", "r", "u", "e">>)>>
                  /\ \A i \in 1..Len(ids) :
                        sent.url.query[2 + i] = <<"ids", HexEncode(ids[i])>>

\* a request for the same identifier twice has gone out
RequestShapeWitness ==
    \E c \in DOMAIN calls :
        /\ Len(calls[c].wire) = 1
        /\ calls[c].wire[1] = calls[c].request.value
        /\ Len(calls[c].price_ids) = 2
        /\ calls[c].price_ids[1] = calls[c].price_ids[2]

\* C8: a call whose response body deserialized returns what the conversion
\* of the deserialized response returns: the same result, or the error of
\* the first string of the blob that does not decode.
FetchReturnsAssemble ==
    \A c \in DOMAIN calls :
        (calls[c].pc = "done" /\ calls[c].benchmark_updates.some) =>
            LET r == calls[c].benchmark_updates.value
                body == calls[c].reply.value.value.body
                bad == {i \in 1..Len(r.binary.data) :
                            ~WellFormed(r.binary.encoding, r.binary.data[i])}
            IN  /\ r.parsed = body.parsed
                /\ r.binary.data = body.data
                /\ calls[c].outcomes = <<TryFromBenchmarkUpdates(r)>>
                /\ bad # {} =>
                      LET first == CHOOSE i \in bad : \A j \in bad : i <= j
                      IN  calls[c].outcomes[1] =
                              DecodeDatum(r.binary.encoding, r.binary.data[first])
                /\ bad = {} => calls[c].outcomes[1].ok

\* a call has returned the error of a blob that does not decode
FetchReturnsAssembleWitness ==
    \E c \in DOMAIN calls :
        /\ calls[c].pc = "done"
        /\ calls[c].benchmark_updates.some
        /\ ~calls[c].outcomes[1].ok
        /\ ErrorClass(calls[c].outcomes[1].error) = "DecodeError"

---------------------------------------------------------------------------
(* Properties of concurrent calls, under SpecConcurrent *)

\* how a call has ended: by a panic, or with the outcomes it returned
Ended(panicked, outcomes) == [panicked |-> panicked, outcomes |-> outcomes]

\* get_verified_price_feeds run alone, as a function of its inputs and of
\* the reply of the provider
RunAlone(endpoint, price_ids, publish_time, reply) ==
    LET base == EndpointOrErr(endpoint)
    IN  IF ~base.ok THEN Ended(FALSE, <<base>>)
        ELSE LET url == UrlJoin(base.value, UpdatesPath(publish_time))
             IN  IF ~url.ok THEN Ended(TRUE, <<>>)
                 ELSE IF url.value.scheme \notin {"http", "https"}
                      THEN Ended(FALSE, <<Err(BadScheme)>>)
                 ELSE IF ~reply.ok THEN Ended(FALSE, <<reply>>)
                 ELSE LET benchmark_updates == ResponseJson(reply.value)
                      IN  IF ~benchmark_updates.ok
                          THEN Ended(FALSE, <<benchmark_updates>>)
                          ELSE Ended(FALSE, <<TryFromBenchmarkUpdates(
                                                  benchmark_updates.value)>>)

\* a step from the call record before to the record after has set the
\* request, if it set one, and has ended the call, if it ended, as the call
\* alone would have
CallAsAlone(before, after) ==
    /\ after.price_ids = before.price_ids
    /\ after.publish_time = before.publish_time
    /\ after.request # before.request =>
          after.request =
              Some(BuildRequest(UrlJoin(benchmarks_endpoint.value,
                                        UpdatesPath(after.publish_time)).value,
                                after.price_ids))
    /\ after.pc \in {"done", "panicked"} =>
          Ended(after.pc = "panicked", after.outcomes) =
              RunAlone(benchmarks_endpoint, after.price_ids, after.publish_time,
                       IF after.reply.some THEN after.reply.value
                       ELSE Err(EndpointNotSet))

\* C10: concurrent calls are independent: in every interleaving a step of
\* one call changes nothing of the other nor the endpoint, and leaves the
\* call with the request and the outcome it would have alone with its
\* inputs and its reply.
ConcurrentCallsIndependent ==
    [][\A c \in DOMAIN calls :
          calls'[c] # calls[c] =>
              /\ \A d \in DOMAIN calls \ {c} : calls'[d] = calls[d]
              /\ benchmarks_endpoint' = benchmarks_endpoint
              /\ CallAsAlone(calls[c], calls'[c])]_vars

\* one call has failed and the other, sent on by a redirect, has succeeded
ConcurrentCallsIndependentWitness ==
    /\ Len(calls["call2"].wire) = 2
    /\ calls["call1"].pc = "done"
    /\ calls["call2"].pc = "done"
    /\ ~calls["call1"].outcomes[1].ok
    /\ calls["call2"].outcomes[1].ok
    /\ calls["call1"].reply.some
    /\ calls["call2"].reply.some

====
